---- MODULE Spec2Model ----
(***************************************************************************)
(* Model of 2017/lectures/03-scipy.ipynb: least-squares fitting of         *)
(* time-resolved fluorescence decays.                                      *)
(*                                                                         *)
(* Floating point values are terms: a number is <<"n", k, 1>> and every    *)
(* NumPy operation builds the term of its operands, so that two results    *)
(* are equal only when they were computed the same way.  A NumPy array is  *)
(* a sequence of terms and the array operations act element by element.    *)
(***************************************************************************)
EXTENDS Integers, Sequences, FiniteSets, TLC

VARIABLES
    p,          \* leastsq_function (global): the parameter vector of the call
    gargs,      \* leastsq_function (global): the *args of the call, <<allx, ally, allyerr>>
    gout,       \* leastsq_function (global): what the call produced
    eres,       \* error_analysis: the OptimizeResult it is given
    eout,       \* error_analysis: what it returned
    raw,        \* preprocessing: the rows np.loadtxt read from one data file
    pre,        \* preprocessing: the outcome for that file
    pc,         \* notebook: the place in Order of the next code cell to run
    raised,     \* notebook: the cell and statement that raised ("" while none has)
    files,      \* notebook: the rows of data/fluorescence/quencher_*.txt
    pickle,     \* notebook: the bytes of data/fluorescence.p (<<>>: no such file)
    ns,         \* notebook: the bindings of the kernel's global names
    heap,       \* notebook: the items of the list objects
    events,     \* notebook: which cell created, wrote in place or read which object
    uses,       \* notebook: the uses of func, leastsq_function, args, res and table
    io          \* notebook: the reads and writes of data/fluorescence.p, in order

residvars == <<p, gargs, gout>>
eavars == <<eres, eout>>
prevars == <<raw, pre>>
nbvars == <<pc, raised, files, pickle, ns, heap, events, uses, io>>
vars == <<p, gargs, gout, eres, eout, raw, pre,
          pc, raised, files, pickle, ns, heap, events, uses, io>>

(***************************************************************************)
(* Bounds of the model.                                                    *)
(***************************************************************************)
MaxCurves == 2      \* curves handed to one call of leastsq_function
MaxLen == 2         \* points of one curve
MaxP == 2           \* parameter values are drawn from 1..MaxP
MaxPoints == 3      \* residuals of an OptimizeResult
MaxResid == 1       \* a residual is drawn from -MaxResid..MaxResid
MaxParams == 2      \* fitted parameters of an OptimizeResult
MaxRows == 3        \* rows of a data file
MaxT == 2           \* a time is drawn from 0..MaxT
MaxF == 2           \* a count is drawn from 0..MaxF

(***************************************************************************)
(* NumPy scalars and arrays.                                               *)
(***************************************************************************)
\* the number n/d; Num(k) is the integer k
Ratio(n, d) == <<"n", n, d>>
Num(k) == Ratio(k, 1)
Neg(a) == <<"neg", a>>
Add(a, b) == <<"add", a, b>>
Sub(a, b) == <<"sub", a, b>>
Mul(a, b) == <<"mul", a, b>>
Div(a, b) == <<"div", a, b>>
Exp(a) == <<"exp", a>>
Expm1(a) == <<"expm1", a>>
Log(a) == <<"log", a>>
Sqrt(a) == <<"sqrt", a>>

\* array (op) array, element by element
ArrSub(a, b) == [j \in 1..Len(a) |-> Sub(a[j], b[j])]
ArrDiv(a, b) == [j \in 1..Len(a) |-> Div(a[j], b[j])]
ArrLog(a) == [j \in 1..Len(a) |-> Log(a[j])]

(***************************************************************************)
(* The four definitions of func.  Python indexes from 0: param[0] of the   *)
(* code is param[1] here.                                                  *)
(***************************************************************************)
\* param[0] * np.exp( - x / param[1] )
func_single(x, param) ==
    [j \in 1..Len(x) |-> Mul(param[1], Exp(Div(Neg(x[j]), param[2])))]

\* F0 * np.exp( - x / tau0 )
func_curvefit(x, F0, tau0) ==
    [j \in 1..Len(x) |-> Mul(F0, Exp(Div(Neg(x[j]), tau0)))]

\* param[0]*np.exp( - x/param[1] + param[3]*np.expm1(-param[2]*x) )
func_global(x, param) ==
    [j \in 1..Len(x) |->
        Mul(param[1],
            Exp(Add(Div(Neg(x[j]), param[2]),
                    Mul(param[4], Expm1(Mul(Neg(param[3]), x[j]))))))]

\* param[0] - x/param[1] + param[3]*np.expm1(-param[2]*x)
func_linear(x, param) ==
    [j \in 1..Len(x) |->
        Add(Sub(param[1], Div(x[j], param[2])),
            Mul(param[4], Expm1(Mul(Neg(param[3]), x[j]))))]

\* The name func is looked up when it is called: `def` names the definition
\* that is bound at that time.
func(def, x, param) ==
    CASE def = "single" -> func_single(x, param)
      [] def = "global" -> func_global(x, param)
      [] def = "linear" -> func_linear(x, param)

(***************************************************************************)
(* leastsq_function of the single fit.                                     *)
(***************************************************************************)
\* ( args[1] - func(args[0], param) ) / args[2]
leastsq_function_single(def, param, args) ==
    ArrDiv(ArrSub(args[2], func(def, args[1], param)), args[3])

(***************************************************************************)
(* leastsq_function of the global fit.                                     *)
(***************************************************************************)
\* param = p[0], p[1], p[2], m      with m = p[3:][i]
ParamSharedM(q, i) == <<q[1], q[2], q[3], q[4]>>
ParamOfCurve(q, i) == <<q[1], q[2], q[3], q[3 + i]>>

\* residuals = np.append(residuals, r)
AppendReversed(residuals, r) == r \o residuals
NpAppend(residuals, r) == residuals \o r

\* The loop over enumerate(p[3:]), from curve i on.  acc.residuals is the
\* array built so far, acc.calls the (curve, param) of the calls of func made
\* so far; args[1][i] raises IndexError when there is no curve i.
RECURSIVE LeastsqLoop(_, _, _, _, _)
LeastsqLoop(def, q, args, i, acc) ==
    IF i > Len(q) - 3 THEN acc
    ELSE IF i > Len(args[2]) THEN [acc EXCEPT !.raised = TRUE]
    ELSE LET param == ParamOfCurve(q, i)
             r == ArrDiv(ArrSub(args[2][i], func(def, args[1][i], param)), args[3][i])
         IN  LeastsqLoop(def, q, args, i + 1,
                 [acc EXCEPT !.residuals = NpAppend(acc.residuals, r),
                             !.calls = Append(acc.calls, [curve |-> i, param |-> param])])

leastsq_function_global(def, q, args) ==
    LeastsqLoop(def, q, args, 1, [residuals |-> <<>>, calls |-> <<>>, raised |-> FALSE])

(***************************************************************************)
(* Exact arithmetic of error_analysis: a number is a fraction <<n, d>>.    *)
(***************************************************************************)
Frac(n, d) == <<n, d>>
FracMulInt(k, a) == <<k * a[1], a[2]>>
FracDivInt(a, k) == <<a[1], a[2] * k>>
FracEq(a, b) == a[1] * b[2] = b[1] * a[2]

RECURSIVE SumSq(_)
SumSq(f) == IF f = <<>> THEN 0 ELSE f[1] * f[1] + SumSq(Tail(f))

\* The result of least_squares with residuals fun at the solution x: its cost
\* is half the sum of the squares of fun.
OptimizeResult(fun, x) == [fun |-> fun, x |-> x, cost |-> Frac(SumSq(fun), 2)]

(***************************************************************************)
(* error_analysis                                                          *)
(***************************************************************************)
\* cost = 2 * res.cost
CostNotDoubled(res) == res.cost
TwiceCost(res) == FracMulInt(2, res.cost)

\* s_sq = cost / (res.fun.size - res.x.size)
ReducedChiSq(res) == FracDivInt(TwiceCost(res), Len(res.fun) - Len(res.x))

\* return np.sqrt(np.diag(pcov)), s_sq      with pcov = pinv(jac^T jac) * s_sq
error_analysis(res) ==
    [perr |-> [k \in 1..Len(res.x) |-> <<"sqrt_diag_pcov", k, ReducedChiSq(res)>>],
     s_sq |-> ReducedChiSq(res)]

(***************************************************************************)
(* Preprocessing of one data file (the loops of the plot cell and of the   *)
(* data dictionary cell).  A row is <<t, F>>.                              *)
(***************************************************************************)
RECURSIVE MaxOf(_)
MaxOf(s) == IF Len(s) = 1 THEN s[1]
            ELSE LET m == MaxOf(Tail(s)) IN IF s[1] > m THEN s[1] ELSE m

RECURSIVE Filter(_, _)
Filter(d, mask) ==
    IF d = <<>> THEN <<>>
    ELSE (IF mask[1] THEN <<d[1]>> ELSE <<>>) \o Filter(Tail(d), Tail(mask))

Column(d, c) == [j \in 1..Len(d) |-> d[j][c]]

\* d[d[:,1]==d[:,1].max(), 0]: the times of the rows of maximal intensity
PeakTimes(d) ==
    LET F == Column(d, 2)
    IN  Column(Filter(d, [j \in 1..Len(d) |-> F[j] = MaxOf(F)]), 1)

\* d[:,0] > peak, with NumPy's broadcasting: an array of one time is compared
\* with every row, an array as long as d row by row, any other length raises
\* ValueError.
CanBroadcast(d, peak) == Len(peak) = 1 \/ Len(peak) = Len(d)
MaskAtOrAfter(d, peak) ==
    [j \in 1..Len(d) |-> d[j][1] >= (IF Len(peak) = 1 THEN peak[1] ELSE peak[j])]
MaskAfter(d, peak) ==
    [j \in 1..Len(d) |-> d[j][1] > (IF Len(peak) = 1 THEN peak[1] ELSE peak[j])]

\* { 't': d[:,0]-d[0,0], 'F': d[:,1], 'Ferr': np.sqrt(d[:,1]) }
Entry(d) ==
    [t |-> [j \in 1..Len(d) |-> Num(d[j][1] - d[1][1])],
     F |-> [j \in 1..Len(d) |-> Num(d[j][2])],
     Ferr |-> [j \in 1..Len(d) |-> Sqrt(Num(d[j][2]))]]

NoEntry == [t |-> <<>>, F |-> <<>>, Ferr |-> <<>>]

\* One pass of the loop body on the rows np.loadtxt returned.  np.loadtxt gives
\* a 2-D array only for two rows or more, so d[:,1] raises IndexError on less;
\* d[0,0] raises IndexError when no row is kept.  at: the statement that raised
\* ("" when none did), d: the binding of d when the pass ended.
Preprocess(rows) ==
    IF Len(rows) < 2 THEN [at |-> "filter", d |-> rows, entry |-> NoEntry]
    ELSE IF ~CanBroadcast(rows, PeakTimes(rows))
         THEN [at |-> "filter", d |-> rows, entry |-> NoEntry]
    ELSE LET d == Filter(rows, MaskAfter(rows, PeakTimes(rows)))
         IN  IF d = <<>> THEN [at |-> "entry", d |-> d, entry |-> NoEntry]
             ELSE [at |-> "", d |-> d, entry |-> Entry(d)]

(***************************************************************************)
(* The notebook: its code cells, in the order of the file.                 *)
(***************************************************************************)
Order ==
    << "Imports", "HeadFile", "ListFiles", "PlotRaw", "PlotPreprocessed",
       "SaveData", "DefineSingle", "FitSingle", "ShowX", "TableSingle",
       "PrintSuccess", "Histogram", "DefineErrorAnalysis", "TableErrors",
       "ShowErrorsSingle", "CurveFit", "TableCurveFit", "LoadGlobal",
       "DefineGlobal", "FitGlobal", "TableGlobal", "ShowErrorsGlobal",
       "Linearize", "FitLinear", "TableLinear", "ShowErrorsLinear",
       "TableFrame", "ShowTable", "PrintLatex" >>

PlaceOf(c) == CHOOSE k \in 1..Len(Order) : Order[k] = c

\* for conc in [0,0.2,0.5,1.0,1.5]
Concs == << Ratio(0, 1), Ratio(2, 10), Ratio(5, 10), Ratio(1, 1), Ratio(15, 10) >>
NCurves == Len(Concs)

\* the key 0.0 of pd.read_pickle('data/fluorescence.p')[0.0]
ConcZero == Ratio(0, 1)

\* x0=[3000,150] and bounds=[(6,150),(3500,200)] of the single fit
X0Single == << Ratio(3000, 1), Ratio(150, 1) >>
LbSingle == << Ratio(6, 1), Ratio(150, 1) >>
UbSingle == << Ratio(3500, 1), Ratio(200, 1) >>

\* param0 = [3000, 160, 0.04, 0] + [0.5]*4
param0 ==
    << Ratio(3000, 1), Ratio(160, 1), Ratio(4, 100), Ratio(0, 1),
       Ratio(1, 2), Ratio(1, 2), Ratio(1, 2), Ratio(1, 2) >>
\* lbound = [0, 0, 0] + [0]*5
lbound ==
    << Ratio(0, 1), Ratio(0, 1), Ratio(0, 1), Ratio(0, 1),
       Ratio(0, 1), Ratio(0, 1), Ratio(0, 1), Ratio(0, 1) >>
\* ubound = [4000, 200, 1, 1e-5] + [3]*4
ubound ==
    << Ratio(4000, 1), Ratio(200, 1), Ratio(1, 1), Ratio(1, 100000),
       Ratio(3, 1), Ratio(3, 1), Ratio(3, 1), Ratio(3, 1) >>

(***************************************************************************)
(* pandas: the DataFrame of the data dictionary and its pickle.  A table   *)
(* is its column keys and, per column, the entries under 't', 'F', 'Ferr'. *)
(***************************************************************************)
EmptyTable == [columns |-> <<>>, col |-> <<>>]

\* data[conc] = { 't': ..., 'F': ..., 'Ferr': ... }
SetItemReplacing(dict, conc, entry) == [columns |-> <<conc>>, col |-> <<entry>>]
SetItem(dict, conc, entry) ==
    [columns |-> Append(dict.columns, conc), col |-> Append(dict.col, entry)]

\* pd.DataFrame(data): the outer keys become the columns and the inner keys
\* the index.
DataFrame(dict) == [columns |-> dict.columns, col |-> dict.col]

RECURSIVE PickleColumns(_)
PickleColumns(cols) ==
    IF cols = <<>> THEN <<>>
    ELSE << <<"t", cols[1].t>>, <<"F", cols[1].F>>, <<"Ferr", cols[1].Ferr>> >>
         \o PickleColumns(Tail(cols))

\* dataframe.to_pickle: a header, the column keys, then the entries of each
\* column in turn.
to_pickle(frame) ==
    << <<"DataFrame", Len(frame.columns)>> >>
    \o [k \in 1..Len(frame.columns) |-> <<"key", frame.columns[k]>>]
    \o PickleColumns(frame.col)

\* pd.read_pickle of such bytes
read_pickle(bytes) ==
    LET n == bytes[1][2]
    IN  [columns |-> [k \in 1..n |-> bytes[1 + k][2]],
         col |-> [k \in 1..n |->
                    [t |-> bytes[1 + n + 3 * (k - 1) + 1][2],
                     F |-> bytes[1 + n + 3 * (k - 1) + 2][2],
                     Ferr |-> bytes[1 + n + 3 * (k - 1) + 3][2]]]]

\* frame[key]: the column under that key (KeyError when there is none)
HasColumn(frame, key) == \E k \in 1..Len(frame.columns) : frame.columns[k] = key
GetColumn(frame, key) ==
    frame.col[CHOOSE k \in 1..Len(frame.columns) : frame.columns[k] = key]

(***************************************************************************)
(* The loop over the data files of the plot cell and of the data           *)
(* dictionary cell.  iofail is the pass whose np.loadtxt raises OSError    *)
(* (0: none does).  n: the passes completed, at: the statement that raised *)
(* in pass n+1 ("" when the loop ended), dict: the dictionary built.       *)
(***************************************************************************)
RECURSIVE LoadLoop(_, _, _, _)
LoadLoop(fs, iofail, k, dict) ==
    IF k > NCurves THEN [n |-> NCurves, at |-> "", dict |-> dict]
    ELSE IF iofail = k THEN [n |-> k - 1, at |-> "loadtxt", dict |-> dict]
    ELSE LET r == Preprocess(fs[k])
         IN  IF r.at /= "" THEN [n |-> k - 1, at |-> r.at, dict |-> dict]
             ELSE LoadLoop(fs, iofail, k + 1, SetItem(dict, Concs[k], r.entry))

(***************************************************************************)
(* scipy.optimize.least_squares                                            *)
(***************************************************************************)
RatioLeq(a, b) == a[2] * b[3] <= b[2] * a[3]

\* in_bounds(x0, lb, ub), or least_squares raises ValueError
Feasible(x0, lb, ub) ==
    \A k \in 1..Len(x0) : RatioLeq(lb[k], x0[k]) /\ RatioLeq(x0[k], ub[k])

\* a weighted residual (y - f) / yerr is finite unless yerr is 0, the error of
\* a count of 0; least_squares raises ValueError on residuals that are not
\* finite at x0
IsZero(t) == t = Num(0) \/ t = Sqrt(Num(0))
ResidualsFinite(r) == \A j \in 1..Len(r) : ~IsZero(r[j][3])

\* the solutions a fit may return: any point within the bounds; x0 and the
\* upper bounds are two
Solutions(x0, ub) == {x0, ub}

(***************************************************************************)
(* The kernel: the global names, the list objects and the logs.            *)
(* NumPy arrays are values here: no cell writes into an array that another *)
(* cell made (np.log and / return new arrays), so only the lists, the      *)
(* dictionary, the tables, the results and rcParams are objects.           *)
(***************************************************************************)
NoNames ==
    [data             |-> [cell |-> "", table |-> EmptyTable],
     dataframe        |-> [cell |-> "", table |-> EmptyTable],
     func             |-> [cell |-> "", def |-> "", arity |-> 0],
     leastsq_function |-> [cell |-> "", def |-> ""],
     error_analysis   |-> [cell |-> ""],
     args             |-> [cell |-> "", kind |-> ""],
     param0           |-> [cell |-> ""],
     res              |-> [cell |-> "", x |-> <<>>, fun |-> <<>>],
     popt             |-> [cell |-> "", x |-> <<>>],
     table            |-> [cell |-> "", kind |-> "", slots |-> 0]]

\* args: the list of DefineSingle; allx, ally, allyerr: the lists of LoadGlobal
NoLists == [args |-> <<>>, allx |-> <<>>, ally |-> <<>>, allyerr |-> <<>>]

NotRaised == [cell |-> "", stmt |-> "", pass |-> 0]

Running(c) == raised.cell = "" /\ pc <= Len(Order) /\ Order[pc] = c
Advance == pc' = pc + 1 /\ raised' = raised /\ UNCHANGED <<residvars, eavars, prevars>>
\* An exception ends the cell; no cell catches one, and the run stops there.
RaiseCaught(c, stmt, pass) ==
    pc' = pc + 1 /\ raised' = raised /\ UNCHANGED <<residvars, eavars, prevars>>
Raise(c, stmt, pass) ==
    /\ pc' = pc
    /\ raised' = [cell |-> c, stmt |-> stmt, pass |-> pass]
    /\ UNCHANGED <<residvars, eavars, prevars>>

Ev(obj, c, kind) == [obj |-> obj, cell |-> c, kind |-> kind]
Used(c, name, env, by, needs, has) ==
    [cell |-> c, name |-> name, boundAt |-> env[name].cell, by |-> by,
     needs |-> needs, has |-> has]

\* what a use of table finds: the number of % slots of a format string, or a frame
TableHas(env) ==
    IF env.table.kind = "format" THEN ToString(env.table.slots) ELSE env.table.kind

\* args as the fitted function receives it: *args
ArgsValue(env, h) ==
    IF env.args.kind = "arrays" THEN h.args ELSE <<h.allx, h.ally, h.allyerr>>

\* leastsq_function(x, *args) with the definitions bound at the time of the call
Residuals(env, h, x) ==
    IF env.leastsq_function.def = "single"
    THEN [residuals |-> leastsq_function_single(env.func.def, x, ArgsValue(env, h)),
          raised |-> FALSE]
    ELSE LET r == leastsq_function_global(env.func.def, x, ArgsValue(env, h))
         IN  [residuals |-> r.residuals, raised |-> r.raised]

\* the kind of args the bound leastsq_function indexes
ArgsNeeded(env) == IF env.leastsq_function.def = "single" THEN "arrays" ELSE "lists"

(***************************************************************************)
(* The code cells.                                                         *)
(***************************************************************************)
\* plt.rcParams.update({...})
Imports ==
    /\ Running("Imports")
    /\ events' = events \cup {Ev("rcParams", "Imports", "create"),
                              Ev("rcParams", "Imports", "write")}
    /\ Advance
    /\ UNCHANGED <<files, pickle, ns, heap, uses, io>>

\* !head -n 13 'data/fluorescence/quencher_0.0.txt'
HeadFile ==
    /\ Running("HeadFile")
    /\ Advance
    /\ UNCHANGED <<files, pickle, ns, heap, events, uses, io>>

\* !ls 'data/fluorescence'
ListFiles ==
    /\ Running("ListFiles")
    /\ Advance
    /\ UNCHANGED <<files, pickle, ns, heap, events, uses, io>>

\* for conc in [...]: t,F = np.loadtxt(..., unpack=True, skiprows=9); plt.errorbar(...)
PlotRaw ==
    /\ Running("PlotRaw")
    /\ \E iofail \in 0..NCurves :
          IF iofail = 0 THEN Advance ELSE Raise("PlotRaw", "loadtxt", iofail)
    /\ UNCHANGED <<files, pickle, ns, heap, events, uses, io>>

\* for conc in [...]: d = np.loadtxt(...); d = d[ d[:,0] > ... ]; plt.errorbar(d[:,0]-d[0,0], ...)
PlotPreprocessed ==
    /\ Running("PlotPreprocessed")
    /\ \E iofail \in 0..NCurves :
          LET o == LoadLoop(files, iofail, 1, EmptyTable)
          IN  IF o.at = "" THEN Advance
              ELSE Raise("PlotPreprocessed", o.at, o.n + 1)
    /\ UNCHANGED <<files, pickle, ns, heap, events, uses, io>>

\* data = {}; the loop; dataframe = pd.DataFrame(data); dataframe.to_pickle(...)
SaveData ==
    /\ Running("SaveData")
    /\ \E iofail \in 0..NCurves : \E wfail \in BOOLEAN :
          LET o == LoadLoop(files, iofail, 1, EmptyTable)
              bound == [ns EXCEPT !.data = [cell |-> "SaveData", table |-> o.dict]]
              frame == DataFrame(o.dict)
              framed == [bound EXCEPT !.dataframe = [cell |-> "SaveData", table |-> frame]]
          IN  /\ events' = events \cup {Ev("data", "SaveData", "create")}
                             \cup (IF o.n > 0 THEN {Ev("data", "SaveData", "write")} ELSE {})
                             \cup (IF o.at = "" THEN {Ev("data", "SaveData", "read")} ELSE {})
              /\ IF o.at /= ""
                 THEN /\ ns' = bound
                      /\ Raise("SaveData", o.at, o.n + 1)
                      /\ UNCHANGED <<pickle, io>>
                 ELSE /\ ns' = framed
                      /\ io' = Append(io, [cell |-> "SaveData", op |-> "write"])
                      /\ IF wfail
                         THEN Raise("SaveData", "to_pickle", 0) /\ pickle' = pickle
                         ELSE Advance /\ pickle' = to_pickle(frame)
    /\ UNCHANGED <<files, heap, uses>>

\* d = pd.read_pickle(...)[0.0]; args = [ d['t'], d['F'], d['Ferr'] ]; def func; def leastsq_function
DefineSingle ==
    /\ Running("DefineSingle")
    /\ io' = Append(io, [cell |-> "DefineSingle", op |-> "read"])
    /\ \E rfail \in BOOLEAN :
          IF rfail \/ pickle = <<>>
          THEN Raise("DefineSingle", "read_pickle", 0) /\ UNCHANGED <<ns, heap, events>>
          ELSE IF ~HasColumn(read_pickle(pickle), ConcZero)
          THEN Raise("DefineSingle", "getitem", 0) /\ UNCHANGED <<ns, heap, events>>
          ELSE LET d == GetColumn(read_pickle(pickle), ConcZero)
               IN  /\ heap' = [heap EXCEPT !.args = <<d.t, d.F, d.Ferr>>]
                   /\ ns' = [ns EXCEPT
                        !.args = [cell |-> "DefineSingle", kind |-> "arrays"],
                        !.func = [cell |-> "DefineSingle", def |-> "single", arity |-> 2],
                        !.leastsq_function = [cell |-> "DefineSingle", def |-> "single"]]
                   /\ events' = events \cup {Ev("args", "DefineSingle", "create")}
                   /\ Advance
    /\ UNCHANGED <<files, pickle, uses>>

\* The uses a call least_squares(leastsq_function, x0=..., args=args, ...) makes.
FitUses(c) ==
    { Used(c, "leastsq_function", ns, "least_squares", "callable", "callable"),
      Used(c, "args", ns, "leastsq_function", ArgsNeeded(ns), ns.args.kind),
      Used(c, "func", ns, "leastsq_function", "2", ToString(ns.func.arity)) }

\* The OptimizeResult a fit cell binds res to.
ResultOf(c) ==
    CASE c = "FitSingle" -> "res of FitSingle"
      [] c = "FitGlobal" -> "res of FitGlobal"
      [] c = "FitLinear" -> "res of FitLinear"
      [] OTHER -> "no result"

\* The list objects a cell reaches through args.
ArgsReads(c) ==
    IF ns.args.kind = "arrays" THEN {Ev("args", c, "read")}
    ELSE {Ev("allx", c, "read"), Ev("ally", c, "read"), Ev("allyerr", c, "read")}

\* res = least_squares(leastsq_function, x0=x0, args=args, bounds=[lb,ub]) and
\* the statements after it, which plot func(args[0], res['x']) (rest: the
\* events of those statements).
LeastSquaresCell(c, x0, lb, ub, rest) ==
    IF ns.func.arity /= 2 \/ ns.args.kind /= ArgsNeeded(ns)
    THEN /\ Raise(c, "least_squares", 0)
         /\ uses' = uses \cup FitUses(c)
         /\ events' = events \cup ArgsReads(c)
         /\ ns' = ns
    ELSE LET r0 == Residuals(ns, heap, x0)
         IN  IF r0.raised \/ ~Feasible(x0, lb, ub) \/ ~ResidualsFinite(r0.residuals)
             THEN /\ Raise(c, "least_squares", 0)
                  /\ uses' = uses \cup FitUses(c)
                  /\ events' = events \cup ArgsReads(c)
                  /\ ns' = ns
             ELSE \E x \in Solutions(x0, ub) :
                  LET bound == [ns EXCEPT !.res =
                          [cell |-> c, x |-> x, fun |-> Residuals(ns, heap, x).residuals]]
                  IN  /\ ns' = bound
                      /\ uses' = uses \cup FitUses(c)
                            \cup { Used(c, "res", bound, "plot", "OptimizeResult", "OptimizeResult"),
                                   Used(c, "args", bound, "plot", ns.args.kind, ns.args.kind),
                                   Used(c, "func", bound, "plot", "2", ToString(ns.func.arity)) }
                      /\ events' = events \cup ArgsReads(c) \cup rest
                            \cup {Ev(ResultOf(c), c, "create"), Ev(ResultOf(c), c, "read")}
                      /\ Advance

\* res = least_squares(leastsq_function, x0=[3000,150], args=args, bounds=[(6,150),(3500,200)])
FitSingle ==
    /\ Running("FitSingle")
    /\ LeastSquaresCell("FitSingle", X0Single, LbSingle, UbSingle, {})
    /\ UNCHANGED <<files, pickle, heap, io>>

\* A cell that only shows res: res.x, res.success, res.fun
ShowsRes(c) ==
    /\ Running(c)
    /\ uses' = uses \cup {Used(c, "res", ns, "show", "OptimizeResult", "OptimizeResult")}
    /\ events' = events \cup {Ev(ResultOf(ns.res.cell), c, "read")}
    /\ Advance
    /\ UNCHANGED <<files, pickle, ns, heap, io>>

ShowX == ShowsRes("ShowX")
PrintSuccess == ShowsRes("PrintSuccess")
Histogram == ShowsRes("Histogram")

\* table = r"""...""" with the given number of % conversions
Format(c, slots) == [cell |-> c, kind |-> "format", slots |-> slots]

\* display.Markdown(table % tuple(values)): TypeError unless table has one
\* conversion per value
Formats(c, env, n) ==
    /\ uses' = uses \cup {Used(c, "table", env, "format", ToString(n), TableHas(env))}
    /\ IF TableHas(env) = ToString(n) THEN Advance ELSE Raise(c, "format", 0)

\* table = r"""... %.2f ... %.2f ..."""; display.Markdown(table % tuple(res.x) )
TableSingle ==
    /\ Running("TableSingle")
    /\ ns' = [ns EXCEPT !.table = Format("TableSingle", 2)]
    /\ Formats("TableSingle", ns', Len(ns.res.x))
    /\ events' = events \cup {Ev(ResultOf(ns.res.cell), "TableSingle", "read")}
    /\ UNCHANGED <<files, pickle, heap, io>>

\* def error_analysis(res)
DefineErrorAnalysis ==
    /\ Running("DefineErrorAnalysis")
    /\ ns' = [ns EXCEPT !.error_analysis = [cell |-> "DefineErrorAnalysis"]]
    /\ Advance
    /\ UNCHANGED <<files, pickle, heap, events, uses, io>>

\* A cell that only binds table to a format string.
BindsTable(c, slots) ==
    /\ Running(c)
    /\ ns' = [ns EXCEPT !.table = Format(c, slots)]
    /\ Advance
    /\ UNCHANGED <<files, pickle, heap, events, uses, io>>

TableErrors == BindsTable("TableErrors", 4)
TableGlobal == BindsTable("TableGlobal", 16)
TableLinear == BindsTable("TableLinear", 16)

\* p_and_e = np.repeat(res['x'],2); p_and_e[1::2] = error_analysis(res)[0];
\* print(..., error_analysis(res)[1]); display.Markdown(table % tuple(p_and_e) )
ShowsErrors(c, arr) ==
    /\ Running(c)
    /\ events' = events \cup {Ev(arr, c, "create"), Ev(arr, c, "write"), Ev(arr, c, "read"),
                              Ev(ResultOf(ns.res.cell), c, "read")}
    /\ uses' = uses \cup
          { Used(c, "res", ns, "error_analysis", "OptimizeResult", "OptimizeResult"),
            Used(c, "table", ns, "format", ToString(2 * Len(ns.res.x)), TableHas(ns)) }
    /\ IF TableHas(ns) = ToString(2 * Len(ns.res.x)) THEN Advance ELSE Raise(c, "format", 0)
    /\ UNCHANGED <<files, pickle, ns, heap, io>>

ShowErrorsSingle == ShowsErrors("ShowErrorsSingle", "p_and_err of ShowErrorsSingle")
ShowErrorsGlobal == ShowsErrors("ShowErrorsGlobal", "p_and_e of ShowErrorsGlobal")
ShowErrorsLinear == ShowsErrors("ShowErrorsLinear", "p_and_e of ShowErrorsLinear")

\* def func(x, F0, tau0)
FuncWithParamVector == [cell |-> "CurveFit", def |-> "curvefit", arity |-> 2]
FuncOfCurveFit == [cell |-> "CurveFit", def |-> "curvefit", arity |-> 3]

\* def func(x, F0, tau0); popt,pcov = curve_fit(func, args[0], args[1], sigma=args[2],
\* p0=[3000,150], bounds=...); plt.plot(args[0],func(args[0],popt[0],popt[1]), ...)
\* curve_fit calls func(xdata, *params), one argument per entry of p0 after x.
CurveFit ==
    /\ Running("CurveFit")
    /\ LET bound == [ns EXCEPT !.func = FuncOfCurveFit]
           called == { Used("CurveFit", "func", bound, "curve_fit",
                            ToString(1 + Len(X0Single)), ToString(bound.func.arity)),
                       Used("CurveFit", "args", bound, "curve_fit", "arrays", ns.args.kind) }
       IN  /\ events' = events \cup ArgsReads("CurveFit")
           /\ IF bound.func.arity /= 1 + Len(X0Single) \/ ns.args.kind /= "arrays"
                 \/ ~Feasible(X0Single, LbSingle, UbSingle)
                 \/ \E j \in 1..Len(heap.args[3]) : IsZero(heap.args[3][j])
              THEN /\ ns' = bound
                   /\ uses' = uses \cup called
                   /\ Raise("CurveFit", "curve_fit", 0)
              ELSE \E x \in Solutions(X0Single, UbSingle) :
                   /\ ns' = [bound EXCEPT !.popt = [cell |-> "CurveFit", x |-> x]]
                   /\ uses' = uses \cup called
                         \cup { Used("CurveFit", "func", bound, "plot", "3",
                                     ToString(bound.func.arity)) }
                   /\ Advance
    /\ UNCHANGED <<files, pickle, heap, io>>

\* table = r"""..."""; p_and_err = np.repeat(popt, 2); p_and_err[1::2] = ...;
\* display.Markdown(table % tuple(p_and_err) )
TableCurveFit ==
    /\ Running("TableCurveFit")
    /\ ns' = [ns EXCEPT !.table = Format("TableCurveFit", 4)]
    /\ events' = events \cup { Ev("p_and_err of TableCurveFit", "TableCurveFit", "create"),
                               Ev("p_and_err of TableCurveFit", "TableCurveFit", "write"),
                               Ev("p_and_err of TableCurveFit", "TableCurveFit", "read") }
    /\ Formats("TableCurveFit", ns', 2 * Len(ns.popt.x))
    /\ UNCHANGED <<files, pickle, heap, io>>

\* data = pd.read_pickle(...); allx = []; ally = []; allyerr = []; for conc in
\* data.columns: allx.append(data[conc]['t']); ...; args = allx, ally, allyerr;
\* param0 = ...; lbound = ...; ubound = ...
LoadGlobal ==
    /\ Running("LoadGlobal")
    /\ io' = Append(io, [cell |-> "LoadGlobal", op |-> "read"])
    /\ \E rfail \in BOOLEAN :
          IF rfail \/ pickle = <<>>
          THEN Raise("LoadGlobal", "read_pickle", 0) /\ UNCHANGED <<ns, heap, events>>
          ELSE LET frame == read_pickle(pickle)
                   n == Len(frame.columns)
               IN  /\ heap' = [heap EXCEPT
                        !.allx = [k \in 1..n |-> frame.col[k].t],
                        !.ally = [k \in 1..n |-> frame.col[k].F],
                        !.allyerr = [k \in 1..n |-> frame.col[k].Ferr]]
                   /\ ns' = [ns EXCEPT
                        !.data = [cell |-> "LoadGlobal", table |-> frame],
                        !.args = [cell |-> "LoadGlobal", kind |-> "lists"],
                        !.param0 = [cell |-> "LoadGlobal"]]
                   /\ events' = events \cup
                        { Ev(o, "LoadGlobal", k) : o \in {"allx", "ally", "allyerr"},
                                                   k \in {"create", "write"} }
                        \cup { Ev("data frame", "LoadGlobal", "create"),
                               Ev("data frame", "LoadGlobal", "read") }
                   /\ Advance
    /\ UNCHANGED <<files, pickle, uses>>

\* def func(x, param); def leastsq_function(p, *args)
DefineGlobal ==
    /\ Running("DefineGlobal")
    /\ ns' = [ns EXCEPT
          !.func = [cell |-> "DefineGlobal", def |-> "global", arity |-> 2],
          !.leastsq_function = [cell |-> "DefineGlobal", def |-> "global"]]
    /\ Advance
    /\ UNCHANGED <<files, pickle, heap, events, uses, io>>

\* res = least_squares(leastsq_function, x0=param0, args=args, bounds=[lbound,ubound]);
\* c = plt.rcParams[...]; p = res['x']; the plot loop
FitGlobal ==
    /\ Running("FitGlobal")
    /\ LeastSquaresCell("FitGlobal", param0, lbound, ubound,
                        {Ev("rcParams", "FitGlobal", "read"),
                         Ev("data frame", "FitGlobal", "read")})
    /\ UNCHANGED <<files, pickle, heap, io>>

(***************************************************************************)
(* The values of the variables a specification does not use.               *)
(***************************************************************************)
NoCall == [def |-> "", residuals |-> <<>>, calls |-> <<>>, raised |-> FALSE, done |-> FALSE]
IdleResid == p = <<>> /\ gargs = <<>> /\ gout = NoCall
NoResult == [fun |-> <<>>, x |-> <<>>, cost |-> Frac(0, 2)]
NoAnalysis == [perr |-> <<>>, s_sq |-> Frac(0, 1), done |-> FALSE]
IdleEA == eres = NoResult /\ eout = NoAnalysis
NotPreprocessed == [at |-> "", d |-> <<>>, entry |-> NoEntry, done |-> FALSE]
IdlePre == raw = <<>> /\ pre = NotPreprocessed

IdleNotebook ==
    /\ pc = 0 /\ raised = NotRaised /\ files = <<>> /\ pickle = <<>>
    /\ ns = NoNames /\ heap = NoLists /\ events = {} /\ uses = {} /\ io = <<>>

(***************************************************************************)
(* SpecResid: leastsq_function of the global fit as a function of its      *)
(* arguments.  The curves have 1..MaxLen points each and every point has   *)
(* its own value, so that the place of a residual in the result tells the  *)
(* curve and the point it comes from.                                      *)
(***************************************************************************)
CurveX(i, n) == [j \in 1..n |-> Num(10 * i + j)]
CurveY(i, n) == [j \in 1..n |-> Num(100 + 10 * i + j)]
CurveYerr(i, n) == [j \in 1..n |-> Num(200 + 10 * i + j)]


InitResid ==
    /\ \E nc \in 1..MaxCurves : \E lens \in [1..nc -> 1..MaxLen] :
          gargs = << [i \in 1..nc |-> CurveX(i, lens[i])],
                     [i \in 1..nc |-> CurveY(i, lens[i])],
                     [i \in 1..nc |-> CurveYerr(i, lens[i])] >>
    /\ \E n \in 3..(MaxCurves + 4) : \E q \in [1..n -> 1..MaxP] :
          p = [k \in 1..n |-> Num(q[k])]
    /\ gout = NoCall
    /\ IdleEA /\ IdlePre /\ IdleNotebook

CallLeastsq ==
    /\ ~gout.done
    /\ \E def \in {"global", "linear"} :
          LET r == leastsq_function_global(def, p, gargs)
          IN  gout' = [def |-> def, residuals |-> r.residuals, calls |-> r.calls,
                       raised |-> r.raised, done |-> TRUE]
    /\ UNCHANGED <<p, gargs, eavars, prevars, nbvars>>

NextResid == CallLeastsq

SpecResid == InitResid /\ [][NextResid]_vars

(***************************************************************************)
(* SpecEA: error_analysis applied to the results least_squares can return. *)
(***************************************************************************)

RECURSIVE SeqsUpTo(_, _)
SeqsUpTo(S, n) ==
    IF n = 0 THEN {<<>>}
    ELSE LET shorter == SeqsUpTo(S, n - 1)
         IN  shorter \cup {Append(s, v) : s \in shorter, v \in S}

InitEA ==
    /\ \E fun \in SeqsUpTo((-MaxResid)..MaxResid, MaxPoints) \ {<<>>} :
       \E n \in 1..MaxParams :
          eres = OptimizeResult(fun, [k \in 1..n |-> Num(k)])
    /\ eout = NoAnalysis
    /\ IdleResid /\ IdlePre /\ IdleNotebook

CallErrorAnalysis ==
    /\ ~eout.done
    /\ LET r == error_analysis(eres)
       IN  eout' = [perr |-> r.perr, s_sq |-> r.s_sq, done |-> TRUE]
    /\ UNCHANGED <<eres, residvars, prevars, nbvars>>

NextEA == CallErrorAnalysis

SpecEA == InitEA /\ [][NextEA]_vars

(***************************************************************************)
(* SpecPre: the preprocessing applied to the contents a data file can have.*)
(***************************************************************************)

InitPre ==
    /\ raw \in SeqsUpTo((0..MaxT) \X (0..MaxF), MaxRows)
    /\ pre = NotPreprocessed
    /\ IdleResid /\ IdleEA /\ IdleNotebook

CallPreprocess ==
    /\ ~pre.done
    /\ LET r == Preprocess(raw)
       IN  pre' = [at |-> r.at, d |-> r.d, entry |-> r.entry, done |-> TRUE]
    /\ UNCHANGED <<raw, residvars, eavars, nbvars>>

NextPre == CallPreprocess

SpecPre == InitPre /\ [][NextPre]_vars

\* One pass of the loop of the linearization cell:
\* args[2][i] = args[2][i]/args[1][i]; args[1][i] = np.log(args[1][i])
LogBeforeDivide(lists, i) ==
    LET y == [lists.ally EXCEPT ![i] = ArrLog(lists.ally[i])]
    IN  [lists EXCEPT !.ally = y,
                      !.allyerr = [lists.allyerr EXCEPT ![i] = ArrDiv(lists.allyerr[i], y[i])]]
LinearizeAlsoX(lists, i) ==
    LET yerr == [lists.allyerr EXCEPT ![i] = ArrDiv(lists.allyerr[i], lists.ally[i])]
    IN  [lists EXCEPT !.allyerr = yerr,
                      !.ally = [lists.ally EXCEPT ![i] = ArrLog(lists.ally[i])],
                      !.allx = [lists.allx EXCEPT ![i] = ArrLog(lists.allx[i])]]
LinearizeCurve(lists, i) ==
    LET yerr == [lists.allyerr EXCEPT ![i] = ArrDiv(lists.allyerr[i], lists.ally[i])]
    IN  [lists EXCEPT !.allyerr = yerr,
                      !.ally = [lists.ally EXCEPT ![i] = ArrLog(lists.ally[i])]]

\* for i in range( data.columns.size )
RECURSIVE LinearizeLoop(_, _, _)
LinearizeLoop(lists, i, n) ==
    IF i > n THEN lists ELSE LinearizeLoop(LinearizeCurve(lists, i), i + 1, n)

\* the loop, then def func(x, param) of the linearized decay.  args[1] and
\* args[2] are the lists ally and allyerr of LoadGlobal; on the list of arrays
\* of DefineSingle args[2][i] would index the points of one curve instead.
Linearize ==
    /\ Running("Linearize")
    /\ uses' = uses \cup {Used("Linearize", "args", ns, "setitem", "lists", ns.args.kind)}
    /\ IF ns.args.kind /= "lists" \/ Len(ns.data.table.columns) > Len(heap.ally)
       THEN Raise("Linearize", "setitem", 1) /\ UNCHANGED <<ns, heap, events>>
       ELSE /\ heap' = LinearizeLoop(heap, 1, Len(ns.data.table.columns))
            /\ events' = events
                 \cup { Ev(o, "Linearize", "read") : o \in {"ally", "allyerr", "data frame"} }
                 \cup { Ev(o, "Linearize", "write") : o \in {l \in DOMAIN heap : heap'[l] /= heap[l]} }
            /\ ns' = [ns EXCEPT !.func = [cell |-> "Linearize", def |-> "linear", arity |-> 2]]
            /\ Advance
    /\ UNCHANGED <<files, pickle, io>>

\* res = least_squares(leastsq_function, x0=param0, args=args, bounds=[lbound,ubound]); ...
FitLinear ==
    /\ Running("FitLinear")
    /\ LeastSquaresCell("FitLinear", param0, lbound, ubound,
                        {Ev("rcParams", "FitLinear", "read"),
                         Ev("data frame", "FitLinear", "read")})
    /\ UNCHANGED <<files, pickle, heap, io>>

\* index=['$F(0)$ (counts)', ..., '$m_4$']
FrameIndex == <<"F(0)", "tau_0", "k_q", "m_0", "m_1", "m_2", "m_3", "m_4">>

\* table = pd.DataFrame({'Value':res.x,'Error':error_analysis(res)[0]}, index=[...], ...)
TableFrame ==
    /\ Running("TableFrame")
    /\ uses' = uses \cup
          { Used("TableFrame", "res", ns, "error_analysis", "OptimizeResult", "OptimizeResult"),
            Used("TableFrame", "res", ns, "show", "OptimizeResult", "OptimizeResult") }
    /\ IF Len(ns.res.x) /= Len(FrameIndex)
       THEN Raise("TableFrame", "DataFrame", 0) /\ ns' = ns
       ELSE /\ ns' = [ns EXCEPT !.table = [cell |-> "TableFrame", kind |-> "frame", slots |-> 0]]
            /\ Advance
    /\ events' = events \cup {Ev(ResultOf(ns.res.cell), "TableFrame", "read")}
    /\ UNCHANGED <<files, pickle, heap, io>>

\* table
ShowTable ==
    /\ Running("ShowTable")
    /\ uses' = uses \cup {Used("ShowTable", "table", ns, "show", TableHas(ns), TableHas(ns))}
    /\ Advance
    /\ UNCHANGED <<files, pickle, ns, heap, events, io>>

\* print(table.to_latex())
PrintLatex ==
    /\ Running("PrintLatex")
    /\ uses' = uses \cup {Used("PrintLatex", "table", ns, "to_latex", "frame", TableHas(ns))}
    /\ IF TableHas(ns) = "frame" THEN Advance ELSE Raise("PrintLatex", "to_latex", 0)
    /\ UNCHANGED <<files, pickle, ns, heap, events, io>>

(***************************************************************************)
(* Spec: the cells run once, top to bottom, until one raises.  The data    *)
(* files hold one of a few decays each, and data/fluorescence.p may be     *)
(* left over from an earlier session.                                      *)
(***************************************************************************)
\* the peak is the second row and two or one rows follow it
Decay4 == << <<0, 1>>, <<1, 3>>, <<2, 2>>, <<3, 1>> >>
Decay3 == << <<0, 2>>, <<1, 4>>, <<2, 3>> >>
\* a count of 0 after the peak
ZeroCount == << <<0, 1>>, <<1, 2>>, <<2, 0>> >>
\* the peak is the last row
PeakLast == << <<0, 1>>, <<1, 2>> >>
\* two rows of maximal intensity
TwoPeaks == << <<0, 2>>, <<1, 2>>, <<2, 1>> >>

DataMenu == {Decay4, Decay3, ZeroCount, PeakLast, TwoPeaks}

StalePickle == to_pickle([columns |-> <<ConcZero>>, col |-> <<Entry(Decay4)>>])

Init ==
    /\ pc = 1
    /\ raised = NotRaised
    /\ files \in [1..NCurves -> DataMenu]
    /\ pickle \in {<<>>, StalePickle}
    /\ ns = NoNames
    /\ heap = NoLists
    /\ events = {}
    /\ uses = {}
    /\ io = <<>>
    /\ IdleResid /\ IdleEA /\ IdlePre

Next ==
    \/ Imports \/ HeadFile \/ ListFiles \/ PlotRaw \/ PlotPreprocessed
    \/ SaveData \/ DefineSingle \/ FitSingle \/ ShowX \/ TableSingle
    \/ PrintSuccess \/ Histogram \/ DefineErrorAnalysis \/ TableErrors
    \/ ShowErrorsSingle \/ CurveFit \/ TableCurveFit \/ LoadGlobal
    \/ DefineGlobal \/ FitGlobal \/ TableGlobal \/ ShowErrorsGlobal
    \/ Linearize \/ FitLinear \/ TableLinear \/ ShowErrorsLinear
    \/ TableFrame \/ ShowTable \/ PrintLatex

Spec == Init /\ [][Next]_vars

(***************************************************************************)
(* Properties of leastsq_function of the global fit (SpecResid).           *)
(***************************************************************************)
\* C1: in the global fit F(0), tau_0 and k_q are shared and m is per curve:
\* the call of func for curve i (from 0) gets param = (p[0], p[1], p[2],
\* p[3+i]); here, with curves and entries counted from 1, the k-th call is the
\* one of curve k and its param is <<p[1], p[2], p[3], p[3+k]>>, and a call
\* that does not raise makes one call of func per entry of p[3:].
C1_SharedParamsAndOwnM ==
    gout.done =>
        /\ \A k \in 1..Len(gout.calls) :
              /\ gout.calls[k].curve = k
              /\ gout.calls[k].param = <<p[1], p[2], p[3], p[3 + k]>>
        /\ ~gout.raised => Len(gout.calls) = Len(p) - 3

\* Two curves were fitted with different m.
C1_Witness ==
    /\ gout.done /\ ~gout.raised
    /\ Len(gout.calls) >= 2
    /\ p[4] /= p[5]

RECURSIVE PointsBefore(_, _)
PointsBefore(ys, i) == IF i = 1 THEN 0 ELSE PointsBefore(ys, i - 1) + Len(ys[i - 1])

\* C2: the result of leastsq_function is one 1-D array, the concatenation in
\* curve order of the weighted residuals (y_i - func(x_i, param_i)) / yerr_i:
\* its length is the sum of the lengths of the fitted curves and the residuals
\* of curve i are the block that follows those of the curves before i.
C2_ResidualsConcatenated ==
    gout.done /\ ~gout.raised =>
        LET n == Len(p) - 3
        IN  /\ Len(gout.residuals) = PointsBefore(gargs[2], n + 1)
            /\ \A i \in 1..n : \A j \in 1..Len(gargs[2][i]) :
                  gout.residuals[PointsBefore(gargs[2], i) + j]
                    = Div(Sub(gargs[2][i][j],
                              func(gout.def, gargs[1][i], gout.calls[i].param)[j]),
                          gargs[3][i][j])

\* Two curves of different lengths were assembled.
C2_Witness ==
    /\ gout.done /\ ~gout.raised
    /\ Len(p) - 3 = 2
    /\ Len(gargs[2][1]) /= Len(gargs[2][2])

(***************************************************************************)
(* Properties of error_analysis (SpecEA).                                  *)
(***************************************************************************)
\* C3: for a result with more points than parameters whose cost is half the
\* sum of the squares of its residuals, the reduced chi squared error_analysis
\* returns is the sum of the squares of the residuals divided by the degrees
\* of freedom, res.fun.size - res.x.size.
C3_ReducedChiSquared ==
    (/\ eout.done
     /\ Len(eres.fun) > Len(eres.x)
     /\ FracEq(eres.cost, Frac(SumSq(eres.fun), 2)))
    => /\ eout.s_sq[2] /= 0
       /\ FracEq(eout.s_sq, Frac(SumSq(eres.fun), Len(eres.fun) - Len(eres.x)))

\* A result with two degrees of freedom and residuals that are not all zero.
C3_Witness ==
    /\ eout.done
    /\ Len(eres.fun) - Len(eres.x) = 2
    /\ SumSq(eres.fun) > 1

(***************************************************************************)
(* Properties of the preprocessing (SpecPre).                              *)
(***************************************************************************)
PeakRows(rows) == {j \in 1..Len(rows) : \A k \in 1..Len(rows) : rows[k][2] <= rows[j][2]}
TimeOfPeak(rows) == rows[CHOOSE j \in PeakRows(rows) : TRUE][1]

\* C4: for a data file with a single row of maximal intensity, the rows kept
\* are those whose time is greater than the time of that row, in their
\* original order, and the stored time axis is the kept times minus the first
\* kept time, so it starts at 0.  An entry is stored exactly when some row is
\* later than the maximum (otherwise the pass raises IndexError).
C4_PointsBeforeMaxDiscarded ==
    (pre.done /\ Cardinality(PeakRows(raw)) = 1) =>
        LET later == SelectSeq(raw, LAMBDA r : r[1] > TimeOfPeak(raw))
        IN  /\ Len(raw) >= 2 => pre.d = later
            /\ (pre.at = "") <=> (later /= <<>>)
            /\ pre.at = "" =>
                  /\ Len(pre.entry.t) = Len(later) /\ Len(pre.entry.F) = Len(later)
                  /\ \A j \in 1..Len(later) :
                        /\ pre.entry.t[j] = Num(later[j][1] - later[1][1])
                        /\ pre.entry.F[j] = Num(later[j][2])
                  /\ pre.entry.t[1] = Num(0)

\* A file whose peak is not its first row in time: a row is discarded besides
\* the peak, one is kept, and the kept times are shifted by a time that is not 0.
C4_Witness ==
    /\ pre.done /\ pre.at = ""
    /\ Cardinality(PeakRows(raw)) = 1
    /\ Len(raw) - Len(pre.d) >= 2
    /\ pre.d[1][1] > 0

(***************************************************************************)
(* Properties of the notebook run top to bottom (Spec).                    *)
(***************************************************************************)
Ran(c) == pc > PlaceOf(c)

\* C5: once the linearization cell has run, for each of the 5 curves args[1][i]
\* is the logarithm of the original F_i, args[2][i] is the original Ferr_i
\* divided by the original F_i (and not by ln F_i), and args[0][i] is the time
\* axis as it was.  The originals are the entries of the table the lists were
\* filled from.
C5_LinearizedErrorPropagation ==
    Ran("Linearize") =>
        /\ Len(heap.allx) = NCurves /\ Len(heap.ally) = NCurves /\ Len(heap.allyerr) = NCurves
        /\ \A i \in 1..NCurves :
              LET orig == ns.data.table.col[i]
              IN  /\ heap.ally[i] = ArrLog(orig.F)
                  /\ heap.allyerr[i] = ArrDiv(orig.Ferr, orig.F)
                  /\ heap.allyerr[i] /= ArrDiv(orig.Ferr, ArrLog(orig.F))
                  /\ heap.allx[i] = orig.t

\* The cell has run on curves of one and of two points.
C5_Witness ==
    /\ Ran("Linearize")
    /\ \E i, j \in 1..NCurves : Len(heap.ally[i]) = 1 /\ Len(heap.ally[j]) = 2

\* C6: the table is saved to data/fluorescence.p and loaded back from it: every
\* read of the file comes after the write, the tables read back (the column
\* 0.0 of the single fit, the whole table of the global fit) are the table
\* written, and that table has one column per quencher concentration 0, 0.2,
\* 0.5, 1.0, 1.5, each holding the entries t, F and Ferr of its data file.
C6_PickleRoundTrip ==
    /\ \A k \in 1..Len(io) :
          io[k].op = "read" => \E j \in 1..(k - 1) : io[j].op = "write"
    /\ Ran("SaveData") =>
          /\ ns.dataframe.table.columns = Concs
          /\ \A k \in 1..NCurves :
                /\ DOMAIN ns.dataframe.table.col[k] = {"t", "F", "Ferr"}
                /\ ns.dataframe.table.col[k] = Preprocess(files[k]).entry
    /\ Ran("DefineSingle") =>
          heap.args = << ns.dataframe.table.col[1].t, ns.dataframe.table.col[1].F,
                         ns.dataframe.table.col[1].Ferr >>
    /\ Ran("LoadGlobal") => ns.data.table = ns.dataframe.table

\* Both reads were made, after the write.
C6_Witness ==
    /\ Ran("LoadGlobal")
    /\ Len(io) = 3
    /\ pickle /= StalePickle

\* An in-place write to an object that another cell created and that another
\* cell reads.
SharedWrite(w) ==
    /\ w.kind = "write"
    /\ \E e \in events : e.obj = w.obj /\ e.kind = "create" /\ e.cell /= w.cell
    /\ \E e \in events : e.obj = w.obj /\ e.kind = "read" /\ e.cell /= w.cell

\* C7 as stated: no cell modifies in place an object that was created by
\* another cell and is read by another cell.
C7_NoSharedMutableState == \A w \in events : ~SharedWrite(w)

\* C7, amended: the only in-place writes to an object that another cell created
\* and another cell reads are those of the linearization cell to the lists ally
\* and allyerr (args[1] and args[2]) of the global fit's data cell.
C7_OnlyLinearizeWritesSharedLists ==
    \A w \in events :
        SharedWrite(w) => w.cell = "Linearize" /\ w.obj \in {"ally", "allyerr"}

\* The linearization cell has replaced the items of both lists, which the fit
\* before it and the fit after it read.
C7_Witness ==
    /\ Ev("ally", "Linearize", "write") \in events
    /\ Ev("allyerr", "Linearize", "write") \in events
    /\ Ev("ally", "FitGlobal", "read") \in events
    /\ Ev("ally", "FitLinear", "read") \in events

\* C8: no cell catches an exception.  Once a statement has raised, the run is
\* still at that cell, what the statements before it bound is kept and what
\* the statements after it would have done is not there; and a cell that was
\* left behind ran all its statements.
C8_ExceptionsPropagate ==
    /\ raised.cell /= "" => pc = PlaceOf(raised.cell)
    /\ (raised.cell = "SaveData" /\ raised.stmt /= "to_pickle") =>
          /\ ns.data.cell = "SaveData"
          /\ ns.data.table.columns = SubSeq(Concs, 1, raised.pass - 1)
          /\ ns.dataframe.cell = ""
          /\ io = <<>>
          /\ pickle \in {<<>>, StalePickle}
    /\ (raised.cell = "SaveData" /\ raised.stmt = "to_pickle") =>
          /\ ns.data.table.columns = Concs
          /\ ns.dataframe.cell = "SaveData"
          /\ pickle \in {<<>>, StalePickle}
    /\ raised.cell = "DefineSingle" => ns.args.cell = "" /\ ns.func.cell = ""
    /\ raised.cell = "LoadGlobal" => ns.data.cell = "SaveData" /\ ns.args.cell = "DefineSingle"
    /\ raised.cell = "FitSingle" => ns.res.cell = ""
    /\ raised.cell = "FitGlobal" =>
          /\ ns.res.cell = "FitSingle"
          /\ Ev("rcParams", "FitGlobal", "read") \notin events
    /\ Ran("SaveData") =>
          /\ ns.dataframe.table.columns = Concs
          /\ pickle = to_pickle(ns.dataframe.table)
    /\ Ran("FitSingle") => ns.res.cell /= ""
    /\ Ran("FitGlobal") => ns.res.cell \in {"FitGlobal", "FitLinear"}

\* np.loadtxt raised in the third pass of the data cell, after two entries
\* had been stored.
C8_Witness ==
    /\ raised.cell = "SaveData" /\ raised.stmt = "loadtxt" /\ raised.pass = 3
    /\ Len(ns.data.table.columns) = 2

\* least_squares raised in the global fit, on a count of 0 in a curve other
\* than the first.
C8_WitnessGlobalFit ==
    raised.cell = "FitGlobal" /\ ns.res.cell = "FitSingle"

(***************************************************************************)
(* The cells that bind each of the names that are bound more than once,    *)
(* and the cells that fit.                                                 *)
(***************************************************************************)
Binders(name) ==
    CASE name = "func" -> {"DefineSingle", "CurveFit", "DefineGlobal", "Linearize"}
      [] name = "leastsq_function" -> {"DefineSingle", "DefineGlobal"}
      [] name = "args" -> {"DefineSingle", "LoadGlobal"}
      [] name = "res" -> {"FitSingle", "FitGlobal", "FitLinear"}
      [] name = "table" -> {"TableSingle", "TableErrors", "TableCurveFit",
                            "TableGlobal", "TableLinear", "TableFrame"}

FitCells == {"FitSingle", "CurveFit", "FitGlobal", "FitLinear"}

\* the last cell of S at or before cell c
LastOf(S, c) ==
    Order[CHOOSE k \in 1..PlaceOf(c) :
            /\ Order[k] \in S
            /\ \A j \in (k + 1)..PlaceOf(c) : Order[j] \notin S]

\* C9: in a run top to bottom every use of func, leastsq_function, args, res
\* and table finds the binding made by the nearest cell at or before it, and
\* the binding fits the use: func is called with as many arguments as its
\* current definition takes (2 in the least_squares fits, 3 in the curve_fit
\* cell), args has the shape the fitted function indexes, table has one
\* conversion per value; and each error_analysis(res) gets the result of the
\* fit that precedes it immediately.
C9_RebindingsFitTheirUses ==
    \A u \in uses :
        /\ u.boundAt = LastOf(Binders(u.name), u.cell)
        /\ u.needs = u.has
        /\ (u.name = "func" /\ u.by = "leastsq_function") => u.has = "2"
        /\ (u.name = "func" /\ u.cell = "CurveFit") => u.has = "3"
        /\ u.by = "error_analysis" => u.boundAt = LastOf(FitCells, u.cell)

\* The whole notebook has run: all the fits and all the calls of error_analysis.
C9_Witness ==
    /\ pc = Len(Order) + 1
    /\ \E u \in uses : u.cell = "TableFrame" /\ u.by = "error_analysis"
    /\ \E u \in uses : u.cell = "CurveFit" /\ u.by = "curve_fit" /\ u.name = "func"

====
